---- MODULE Spec2Model ----
(***************************************************************************)
(* A model of todo.py: a command-line tool that resolves the directories   *)
(* to scan, lists the files below them, matches every line of every file   *)
(* against the annotated-comment pattern and prints what it found.         *)
(*                                                                         *)
(* Text is modelled as sequences of one-character strings.                 *)
(***************************************************************************)
EXTENDS Integers, Sequences, FiniteSets, TLC

VARIABLES
    fs,         \* the filesystem: existing absolute path |-> its entry
    text,       \* search_file: the line handed to regex.search
    m,          \* search_file: what regex.search returned for it
    report,     \* what search_file returned for the file under test
    found,      \* what find_files returned for the directory under test
    environ,    \* os.environ: variable name |-> value
    cwd,        \* Path.cwd()
    home,       \* Path.home()
    pc,         \* where main is
    paths,      \* main: the directories to scan
    pool,       \* the Pool's map calls: function name |-> job
    files,      \* main: what pool.map(find_files, paths) returned
    results,    \* main: the reports kept
    printed,    \* main: how many of results the for loop has printed
    stdout,     \* what was printed, one block per print call
    stderr,     \* what was written to sys.stderr
    exitCode,   \* the exit code of the process, -1 while it runs
    consulted   \* whether os.environ was looked at

unitVars == <<text, m, report, found>>
inputVars == <<fs, environ, cwd, home>>
mainVars == <<pc, paths, pool, files, results, printed, stdout, stderr, exitCode,
              consulted>>
vars == <<fs, text, m, report, found, environ, cwd, home, pc, paths, pool, files,
          results, printed, stdout, stderr, exitCode, consulted>>

----------------------------------------------------------------------------
(* Bounds *)

MaxWs == 2        \* longest run of whitespace in a generated line
MaxTagLen == 2    \* most letters after the "@" of a generated tag
MaxLines == 3     \* most lines of a generated file
MaxSymlinks == 2  \* symbolic links one path lookup follows before it fails
MaxRoots == 2     \* most entries of TODO_PATH
PoolSize == 2     \* the worker processes of Pool(): os.cpu_count()

----------------------------------------------------------------------------
(* Characters *)

Whitespace == {" ", "\t", "\n"}        \* the whitespace class, as far as lines here use it
Upper == {"A"}                         \* the class A-Z
\* Python's None, and the value of a name not yet assigned.
None == [none |-> TRUE]
Unset == [unset |-> TRUE]

\* All sequences over S of length at most n.
SeqsUpTo(S, n) == UNION {[1..k -> S] : k \in 0..n}

----------------------------------------------------------------------------
\* search_file's pattern: start of line, whitespace (one or more), a token
\* (two slashes, a hash, or a star with an optional slash before it),
\* whitespace (one or more), the tag group (an at sign and one or more of
\* A-Z), one space, the text group (anything up to the line end).
\* It is matched the way a backtracking matcher does: each piece maps the
\* set of positions the pieces before it can end at to the positions it can
\* end at.  A position is the index of the next unread character.

\* MatchSpaces with "zero or more" for "one or more".
MatchSpacesStar(s, I) ==
    UNION {{j \in i..(Len(s) + 1) : \A k \in i..(j - 1) : s[k] \in Whitespace}
           : i \in I}

\* Whitespace, one or more.
MatchSpaces(s, I) ==
    UNION {{j \in (i + 1)..(Len(s) + 1) : \A k \in i..(j - 1) : s[k] \in Whitespace}
           : i \in I}

\* The comment-opening token.
MatchToken(s, I) ==
    {i + 2 : i \in {x \in I : x + 1 <= Len(s) /\ s[x] = "/" /\ s[x + 1] = "/"}}
    \cup {i + 1 : i \in {x \in I : x <= Len(s) /\ s[x] = "#"}}
    \cup {i + 2 : i \in {x \in I : x + 1 <= Len(s) /\ s[x] = "/" /\ s[x + 1] = "*"}}
    \cup {i + 1 : i \in {x \in I : x <= Len(s) /\ s[x] = "*"}}

\* The tag group: the spans <<first, next>> it can cover.
MatchTag(s, I) ==
    {<<i, j>> \in I \X (1..(Len(s) + 1)) :
        /\ i <= Len(s) /\ s[i] = "@"
        /\ j >= i + 2
        /\ \A k \in (i + 1)..(j - 1) : s[k] \in Upper}

\* The literal space after the tag.
MatchBlank(s, T) == {t \in T : t[2] <= Len(s) /\ s[t[2]] = " "}

\* The text group: greedy, and a dot matches anything but a newline.
DotStarEnd(s, i) ==
    IF \E k \in i..Len(s) : s[k] = "\n"
    THEN (CHOOSE k \in i..Len(s) : s[k] = "\n" /\ \A l \in i..(k - 1) : s[l] # "\n")
    ELSE Len(s) + 1

\* The tag spans of the matches of the whole pattern anchored at position 1.
RegexMatches(s) ==
    MatchBlank(s, MatchTag(s, MatchSpaces(s, MatchToken(s, MatchSpaces(s, {1})))))

\* regex.search(text): the match's groups, or None.
regex_search(s) ==
    IF RegexMatches(s) = {} THEN None
    ELSE LET t == CHOOSE x \in RegexMatches(s) : TRUE
         IN  [tag  |-> SubSeq(s, t[1], t[2] - 1),
              text |-> SubSeq(s, t[2] + 1, DotStarEnd(s, t[2] + 1) - 1)]

\* str.strip(): drop leading and trailing whitespace.
RECURSIVE lstrip(_)
lstrip(s) == IF s # <<>> /\ Head(s) \in Whitespace THEN lstrip(Tail(s)) ELSE s

RECURSIVE rstrip(_)
rstrip(s) ==
    IF s # <<>> /\ s[Len(s)] \in Whitespace THEN rstrip(SubSeq(s, 1, Len(s) - 1)) ELSE s

strip(s) == rstrip(lstrip(s))

----------------------------------------------------------------------------
(* The filesystem.  A path is the sequence of its names from "/".  fs maps *)
(* every existing path, written without symbolic links, to its entry:      *)
(*   [kind |-> "dir"]                                                      *)
(*   [kind |-> "file", lines, bad, readable]  lines: the decoded lines;    *)
(*        bad: the number of the first line that cannot be decoded, or 0;  *)
(*        readable: whether open() is permitted                            *)
(*   [kind |-> "link", target]   a symbolic link to an absolute path       *)
(*   [kind |-> "other"]          a fifo, a socket, a device                *)

NoEnt == [kind |-> "absent"]
Dir == [kind |-> "dir"]
Other == [kind |-> "other"]
Link(target) == [kind |-> "link", target |-> target]
File(lines, bad, readable) ==
    [kind |-> "file", lines |-> lines, bad |-> bad, readable |-> readable]

\* The lookup of a path, as stat() does it: names are looked up one by one
\* from a directory, and a symbolic link met on the way is replaced by its
\* target; the lookup fails once it has followed MaxSymlinks links and
\* meets another.  cur: the directory reached, rest: the names left,
\* n: the links followed.  The result is the path reached, or no path.
RECURSIVE Walk(_, _, _)
Walk(cur, rest, n) ==
    IF rest = <<>> THEN [ok |-> TRUE, path |-> cur]
    ELSE LET next == Append(cur, Head(rest))
         IN  IF next \notin DOMAIN fs \/ fs[cur].kind # "dir" THEN [ok |-> FALSE]
             ELSE IF fs[next].kind = "link"
                  THEN IF n >= MaxSymlinks THEN [ok |-> FALSE]
                       ELSE Walk(<<>>, fs[next].target \o Tail(rest), n + 1)
                  ELSE Walk(next, Tail(rest), n)

\* os.stat(path): the entry the path leads to, links followed.
stat(path) ==
    LET r == Walk(<<>>, path, 0) IN IF r.ok THEN fs[r.path] ELSE NoEnt

\* os.lstat(path): the entry itself, a final link not followed.
lstat(path) ==
    IF path = <<>> THEN fs[path]
    ELSE LET r == Walk(<<>>, SubSeq(path, 1, Len(path) - 1), 0)
         IN  IF r.ok /\ Append(r.path, path[Len(path)]) \in DOMAIN fs
             THEN fs[Append(r.path, path[Len(path)])]
             ELSE NoEnt

exists(path) == stat(path) # NoEnt              \* Path.exists, os.path.exists
is_dir(path) == stat(path).kind = "dir"         \* Path.is_dir
is_file(path) == stat(path).kind = "file"       \* Path.is_file

----------------------------------------------------------------------------
(* find_files *)

\* How a call ends: it returns a value or it raises.
Returned(v) == [ret |-> v]
Raised(exc) == [raised |-> exc]
IsRaised(r) == "raised" \in DOMAIN r

\* The members of a set in an arbitrary but fixed order.
RECURSIVE SetToSeq(_)
SetToSeq(S) ==
    IF S = {} THEN <<>>
    ELSE LET x == CHOOSE y \in S : TRUE IN <<x>> \o SetToSeq(S \ {x})

\* Path.iterdir(): the entries of the directory p leads to, each as p / name,
\* in the order the OS lists them (arbitrary).
iterdir(p) ==
    LET d == Walk(<<>>, p, 0).path
        names == {q[Len(q)] : q \in {x \in DOMAIN fs :
                      Len(x) = Len(d) + 1 /\ SubSeq(x, 1, Len(d)) = d}}
        order == SetToSeq(names)
    IN  [i \in 1..Len(order) |-> Append(p, order[i])]

\* The closure search(p) of find_files, as the list it appends to res.
\* ForItems is its for loop over the items left.
RECURSIVE search(_), ForItems(_)
ForItems(items) ==
    IF items = <<>> THEN <<>>
    ELSE LET item == Head(items)
         IN  (IF is_dir(item) THEN search(item)
              ELSE IF is_file(item) THEN <<item>>
              ELSE <<>>)
             \o ForItems(Tail(items))

search(p) == ForItems(iterdir(p))

\* find_files searching the directories of the top level a second time.
find_files_revisit(directory) ==
    IF is_dir(directory)
    THEN Returned(search(directory)
                  \o ForItems(SelectSeq(iterdir(directory), is_dir)))
    ELSE Raised("OSError")

\* find_files without the descent into directories.
find_files_flat(directory) ==
    IF is_dir(directory) THEN Returned(SelectSeq(iterdir(directory), is_file))
    ELSE Raised("OSError")

\* find_files(directory): the list res, or the OSError of an iterdir() on
\* something that is no directory.
find_files(directory) ==
    IF is_dir(directory) THEN Returned(search(directory)) ELSE Raised("OSError")

----------------------------------------------------------------------------
(* search_file *)

\* The loop over enumerate(f, 1): the todos of lines i.. of the file.
RECURSIVE Todos(_, _)
Todos(lines, i) ==
    IF i > Len(lines) THEN <<>>
    ELSE LET hit == regex_search(lines[i])
         IN  (IF hit # None
              THEN <<[line |-> i, tag |-> hit.tag, text |-> strip(hit.text)]>>
              ELSE <<>>)
             \o Todos(lines, i + 1)

\* search_file with enumerate(f) for enumerate(f, 1): lines counted from 0.
search_file_enum0(path) ==
    LET f == stat(path)
        todos == Todos(f.lines, 1)
    IN  IF f.kind # "file" \/ ~f.readable THEN Raised("OSError")
        ELSE IF f.bad # 0 THEN Returned(None)
        ELSE Returned([file |-> path,
                       todos |-> [k \in DOMAIN todos |->
                                     [todos[k] EXCEPT !.line = @ - 1]]])

\* search_file(path): a SearchResult, None after a decoding failure, or the
\* OSError of an open() that failed (open is outside the try block).
search_file(path) ==
    LET f == stat(path)
    IN  IF f.kind # "file" \/ ~f.readable THEN Raised("OSError")
        ELSE IF f.bad # 0 THEN Returned(None)
        ELSE Returned([file |-> path, todos |-> Todos(f.lines, 1)])

----------------------------------------------------------------------------
(* The lines the line matcher is run on: every concatenation of a leading  *)
(* run, a token, a gap, a tag, a separator and a remainder, each drawn     *)
(* from the well-formed pieces and their near misses.                      *)

Leads == {[i \in 1..k |-> " "] : k \in 0..MaxWs} \cup {<<"\t">>}
Gaps == SeqsUpTo({" ", "\t"}, MaxWs)
Tokens == {<<"/", "/">>, <<"#">>, <<"*">>, <<"/", "*">>, <<"/">>, <<"a">>, <<>>}
Tags == {<<"@">> \o l : l \in SeqsUpTo({"A", "a"}, MaxTagLen)} \cup {<<"A">>, <<>>}
Separators == {<<" ">>, <<"\t">>, <<>>}
Remainders == {<<>>, <<"\n">>, <<"a">>, <<" ", "a", " ", "\n">>}

----------------------------------------------------------------------------
(* The line matcher on one line *)

\* A filesystem with nothing in it.
EmptyFs == [p \in {<<>>} |-> Dir]

\* A Pool.map call that was not made.
NoJob == [submitted |-> FALSE, args |-> <<>>, taken |-> 0, running |-> {},
          done |-> {}, value |-> <<>>, overtaken |-> FALSE]

\* The program not started: the specifications of single functions leave it so.
MainIdle ==
    /\ environ = <<>> /\ cwd = <<>> /\ home = <<>>
    /\ pc = "idle" /\ paths = <<>>
    /\ pool = [find_files |-> NoJob, search_file |-> NoJob]
    /\ files = <<>> /\ results = <<>> /\ printed = 0
    /\ stdout = <<>> /\ stderr = <<>> /\ exitCode = -1
    /\ consulted = FALSE

InitLine ==
    /\ \E a \in Leads, b \in Tokens, c \in Gaps, d \in Tags,
          e \in Separators, f \in Remainders :
           text = a \o b \o c \o d \o e \o f
    /\ m = Unset
    /\ fs = EmptyFs
    /\ report = Unset
    /\ found = Unset
    /\ MainIdle

\* m = regex.search(text)
SearchLine ==
    /\ m = Unset
    /\ m' = regex_search(text)
    /\ UNCHANGED <<fs, text, report, found, environ, cwd, home, mainVars>>

NextLine == SearchLine

SpecLine == InitLine /\ [][NextLine]_vars

\* The form a matching line has.  GapOk says which lengths the run of
\* whitespace between the token and the tag may have.
HasForm(s, GapOk(_)) ==
    \E a \in 2..Len(s) :
        /\ \A k \in 1..(a - 1) : s[k] \in Whitespace
        /\ \E b \in {a + 1, a + 2} :
            /\ b <= Len(s)
            /\ SubSeq(s, a, b - 1) \in {<<"/", "/">>, <<"#">>, <<"*">>, <<"/", "*">>}
            /\ \E c \in (b + 1)..Len(s) :
                /\ \A k \in b..(c - 1) : s[k] \in Whitespace
                /\ GapOk(c - b)
                /\ s[c] = "@"
                /\ \E d \in (c + 2)..Len(s) :
                    /\ \A k \in (c + 1)..(d - 1) : s[k] \in Upper
                    /\ s[d] = " "

ExactlyOne(n) == n = 1
OneOrMore(n) == n >= 1

\* C2 as stated: a line produces an Annotation if and only if it is leading
\* whitespace (one or more), a token, ONE whitespace character, a tag, a
\* single space and the text.
C2_OneWhitespaceBeforeTag ==
    m # Unset => ((m # None) <=> HasForm(text, ExactlyOne))

\* C2 as amended: a line produces an Annotation if and only if it is leading
\* whitespace (one or more), a token that is two slashes, a hash, a star or
\* a slash and a star, whitespace (ONE OR MORE characters), a tag of an at
\* sign and one or more of A-Z, a single space and the text; a line whose
\* token is at column 0 never produces one.
C2_PatternForm ==
    m # Unset =>
        /\ (m # None) <=> HasForm(text, OneOrMore)
        /\ (text # <<>> /\ text[1] \notin Whitespace) => m = None

\* A line with two whitespace characters before its tag was matched.
C2_Witness ==
    /\ m # Unset /\ m # None
    /\ ~HasForm(text, ExactlyOne)

----------------------------------------------------------------------------
(* search_file on one file *)

F == <<"f">>

SampleLines ==
    {<<" ", "#", " ", "@", "A", " ", "a", "\n">>,
     <<"\t", "/", "*", " ", " ", "@", "A", "A", " ", " ", "a", " ", "\n">>,
     <<"#", " ", "@", "A", " ", "a", "\n">>,
     <<"a", "\n">>}

InitFile ==
    /\ \E lines \in SeqsUpTo(SampleLines, MaxLines) :
       \E bad \in 0..Len(lines) :
       \E readable \in BOOLEAN :
           fs = (F :> File(lines, bad, readable)) @@ EmptyFs
    /\ report = Unset
    /\ text = <<>>
    /\ m = Unset
    /\ found = Unset
    /\ MainIdle

\* report = search_file(F)
SearchFile ==
    /\ report = Unset
    /\ report' = search_file(F)
    /\ UNCHANGED <<fs, text, m, found, environ, cwd, home, mainVars>>

NextFile == SearchFile

SpecFile == InitFile /\ [][NextFile]_vars

Matching(lines) == {i \in 1..Len(lines) : regex_search(lines[i]) # None}

\* C1: for a file read to the end without a decoding failure, search_file
\* returns a report with exactly one entry per matching line and none for any
\* other line, each carrying the line's 1-indexed number, in strictly
\* ascending order of line number.
C1_OneEntryPerMatchingLine ==
    (report # Unset /\ fs[F].readable /\ fs[F].bad = 0) =>
        /\ ~IsRaised(report) /\ report.ret # None
        /\ report.ret.file = F
        /\ LET todos == report.ret.todos
           IN  /\ {todos[k].line : k \in DOMAIN todos} = Matching(fs[F].lines)
               /\ \A j, k \in DOMAIN todos : j < k => todos[j].line < todos[k].line

\* A file with a matching line after a line that does not match was searched.
C1_Witness ==
    /\ report # Unset /\ fs[F].readable /\ fs[F].bad = 0
    /\ \E i \in Matching(fs[F].lines) : i > 1 /\ (i - 1) \notin Matching(fs[F].lines)

----------------------------------------------------------------------------
(* find_files on one directory tree *)

R == <<"r">>
RA == <<"r", "a">>
RB == <<"r", "b">>
RC == <<"r", "c">>
RAA == <<"r", "a", "a">>
Missing == <<"x">>

Plain == File(<<>>, 0, TRUE)

\* What an entry below R may be.
EntryChoices ==
    {NoEnt, Dir, Plain, Other, Link(R), Link(RA), Link(RAA), Link(Missing)}

\* The filesystem that holds the entries e names, those absent left out.
TreeOf(e) ==
    [p \in {<<>>} \cup {q \in DOMAIN e : e[q] # NoEnt} |->
        IF p \in DOMAIN e THEN e[p] ELSE Dir]

InitFind ==
    /\ \E e \in [{RA, RB, RC, RAA} -> EntryChoices] :
           /\ e[RAA] # NoEnt => e[RA] = Dir
           /\ fs = TreeOf((R :> Dir) @@ e)
    /\ found = Unset
    /\ report = Unset
    /\ text = <<>>
    /\ m = Unset
    /\ MainIdle

\* found = find_files(R)
FindFiles ==
    /\ found = Unset
    /\ found' = find_files(R)
    /\ UNCHANGED <<fs, text, m, report, environ, cwd, home, mainVars>>

NextFind == FindFiles

SpecFind == InitFind /\ [][NextFind]_vars

Range(seq) == {seq[i] : i \in DOMAIN seq}
NoRepeats(seq) == \A i, j \in DOMAIN seq : i # j => seq[i] # seq[j]

\* The names entries have.
Names == {q[Len(q)] : q \in DOMAIN fs \ {<<>>}}

\* The directories descent from root reaches, root among them: an entry
\* counts as a directory by what it is itself (lstat) or by what it leads to
\* (stat).  seen: those reached so far, frontier: the ones reached last.
RECURSIVE Descend(_, _, _)
Descend(seen, frontier, followLinks) ==
    IF frontier = {} THEN seen
    ELSE LET next == {q \in {Append(p, n) : p \in frontier, n \in Names} :
                         IF followLinks THEN is_dir(q) ELSE lstat(q).kind = "dir"}
         IN  Descend(seen \cup next, next, followLinks)

\* The regular files descent from root reaches.
FilesBelow(root, followLinks) ==
    {q \in {Append(p, n) : p \in Descend({root}, {root}, followLinks), n \in Names} :
        IF followLinks THEN is_file(q) ELSE lstat(q).kind = "file"}

\* C7 as stated: find_files returns each regular file reachable under the
\* root exactly once and nothing else; symbolic links are neither followed
\* nor collected.
C7_SymlinksSkipped ==
    found # Unset =>
        /\ NoRepeats(found.ret)
        /\ Range(found.ret) = FilesBelow(R, FALSE)

\* C7 as amended: find_files returns, exactly once each and nothing else,
\* every path below the root that leads to a regular file through entries
\* that lead to directories, symbolic links looked through: a link to a
\* directory is recursed into and a link to a regular file is collected;
\* only entries that lead to neither (special files, sockets, dangling links,
\* links past the lookup's limit) are skipped.
C7_EachReachableFileOnce ==
    found # Unset =>
        /\ NoRepeats(found.ret)
        /\ Range(found.ret) = FilesBelow(R, TRUE)

\* find_files returned a file it reached through a link to a directory, and
\* skipped a special file.
C7_Witness ==
    /\ found # Unset
    /\ \E p \in Range(found.ret) : Len(p) > 2 /\ lstat(SubSeq(p, 1, 2)).kind = "link"
    /\ \E q \in {RA, RB, RC} : lstat(q).kind = "other"

----------------------------------------------------------------------------
(* The path resolver *)

IsPrefix(p, q) == Len(p) <= Len(q) /\ SubSeq(q, 1, Len(p)) = p

\* [cwd, *cwd.parents]: the directory, then its ancestors up to "/".
Ancestry(dir) == [i \in 1..(Len(dir) + 1) |-> SubSeq(dir, 1, Len(dir) + 1 - i)]

\* current_git_repo walking the ancestry from "/" down.
current_git_repo_outermost ==
    LET chain == Ancestry(cwd)
        hits == {i \in DOMAIN chain : exists(Append(chain[i], ".git"))}
    IN  IF hits = {} THEN <<>>
        ELSE <<chain[CHOOSE i \in hits : \A j \in hits : i >= j]>>

\* current_git_repo(): the first directory of the ancestry that has a
\* ".git", as a list of one path, or the empty list for None.
current_git_repo ==
    LET chain == Ancestry(cwd)
        hits == {i \in DOMAIN chain : exists(Append(chain[i], ".git"))}
    IN  IF hits = {} THEN <<>>
        ELSE <<chain[CHOOSE i \in hits : \A j \in hits : i <= j]>>

\* bail(msg): the line printed to sys.stderr; exit(1) follows.
bail(msg) == <<"ERROR: ", msg>>

\* todo_paths reading os.environ.get("TODO_PATH", ""): no bail.
todo_paths_default ==
    IF "TODO_PATH" \notin DOMAIN environ THEN Returned(<<>>)
    ELSE Returned(SelectSeq(environ["TODO_PATH"], exists))

\* todo_paths(): the entries of TODO_PATH that exist, or the SystemExit of
\* bail.  The value of TODO_PATH is held as split(":") cuts it.
todo_paths ==
    IF "TODO_PATH" \notin DOMAIN environ THEN Raised("SystemExit")
    ELSE Returned(SelectSeq(environ["TODO_PATH"], exists))

----------------------------------------------------------------------------
(* Pool.map *)

Min(a, b) == IF a < b THEN a ELSE b

\* The chunk size Pool.map cuts n tasks into.
ChunkSize(n) ==
    IF n = 0 THEN 0
    ELSE (n \div (PoolSize * 4)) + (IF n % (PoolSize * 4) = 0 THEN 0 ELSE 1)

NChunks(job) ==
    LET n == Len(job.args)
    IN  IF n = 0 THEN 0 ELSE (n + ChunkSize(n) - 1) \div ChunkSize(n)

\* The tasks (indexes of args) of chunk c.
ChunkTasks(job, c) ==
    LET cs == ChunkSize(Len(job.args))
    IN  ((c - 1) * cs + 1)..Min(c * cs, Len(job.args))

\* pool.map(func, args), submitted: no chunk taken by a worker yet.
\* taken: the chunks handed to workers, in order; running, done: the chunks
\* being worked on and finished; value: the result of each task;
\* overtaken: whether a chunk finished while an earlier one was running.
Submit(args) ==
    [submitted |-> TRUE, args |-> args, taken |-> 0, running |-> {},
     done |-> {}, value |-> [i \in DOMAIN args |-> Unset], overtaken |-> FALSE]

\* The function a job maps.
Call(fn, arg) == IF fn = "find_files" THEN find_files(arg) ELSE search_file(arg)

\* What a worker stores for chunk c: the result of each task up to the first
\* one that raises; the tasks after that one are not run.
ChunkResult(fn, job, c) ==
    [i \in DOMAIN job.args |->
        IF i \in ChunkTasks(job, c)
           /\ \A j \in ChunkTasks(job, c) : j < i => ~IsRaised(Call(fn, job.args[j]))
        THEN Call(fn, job.args[i])
        ELSE job.value[i]]

\* The map call waits until every chunk is done.
ready(job) == job.submitted /\ job.done = 1..NChunks(job)

Failed(job) == \E i \in DOMAIN job.value : IsRaised(job.value[i])

\* What the map call returns: the results in the order of args.
MapResult(job) == [i \in DOMAIN job.args |-> job.value[i].ret]

Busy == Cardinality(pool["find_files"].running) + Cardinality(pool["search_file"].running)

\* chain(*files)
RECURSIVE chain(_)
chain(lists) == IF lists = <<>> THEN <<>> ELSE Head(lists) \o chain(Tail(lists))

----------------------------------------------------------------------------
(* SearchResult.__str__ *)

\* The lines of the block, or the ValueError of relative_to for a file that
\* is not below the home directory.
SearchResult_str(res) ==
    IF ~IsPrefix(home, res.file) THEN Raised("ValueError")
    ELSE Returned([i \in DOMAIN res.todos |->
            [tag |-> res.todos[i].tag,
             name |-> SubSeq(res.file, Len(home) + 1, Len(res.file)),
             line |-> res.todos[i].line,
             text |-> res.todos[i].text]])

----------------------------------------------------------------------------
(* main *)

\* repo = current_git_repo(); paths = [repo]
MainRepo ==
    /\ pc = "start"
    /\ current_git_repo # <<>>
    /\ paths' = current_git_repo
    /\ pc' = "pool"
    /\ UNCHANGED <<inputVars, unitVars>>
    /\ UNCHANGED <<pool, files, results, printed, stdout, stderr, exitCode, consulted>>

\* repo is None; paths = todo_paths()
MainTodoPaths ==
    /\ pc = "start"
    /\ current_git_repo = <<>>
    /\ ~IsRaised(todo_paths)
    /\ paths' = todo_paths.ret
    /\ consulted' = TRUE
    /\ pc' = "pool"
    /\ UNCHANGED <<inputVars, unitVars>>
    /\ UNCHANGED <<pool, files, results, printed, stdout, stderr, exitCode>>

\* repo is None; todo_paths() bails
MainBail ==
    /\ pc = "start"
    /\ current_git_repo = <<>>
    /\ IsRaised(todo_paths)
    /\ consulted' = TRUE
    /\ stderr' = Append(stderr, bail("TODO_PATH not set."))
    /\ exitCode' = 1
    /\ pc' = "bailed"
    /\ UNCHANGED <<inputVars, unitVars>>
    /\ UNCHANGED <<paths, pool, files, results, printed, stdout>>

\* with Pool() as pool: pool.map(find_files, paths) is called
MapFindFiles ==
    /\ pc = "pool"
    /\ pool' = [pool EXCEPT !["find_files"] = Submit(paths)]
    /\ pc' = "enum"
    /\ UNCHANGED <<inputVars, unitVars>>
    /\ UNCHANGED <<paths, files, results, printed, stdout, stderr, exitCode, consulted>>

\* An idle worker takes the next chunk of a job.
WorkerTake(fn) ==
    /\ pool[fn].submitted
    /\ pool[fn].taken < NChunks(pool[fn])
    /\ Busy < PoolSize
    /\ pool' = [pool EXCEPT ![fn].taken = @ + 1, ![fn].running = @ \cup {pool[fn].taken + 1}]
    /\ UNCHANGED <<inputVars, unitVars>>
    /\ UNCHANGED <<pc, paths, files, results, printed, stdout, stderr, exitCode, consulted>>

\* A worker finishes its chunk and hands in the results.
WorkerDone(fn, c) ==
    /\ c \in pool[fn].running
    /\ pool' = [pool EXCEPT ![fn].running = @ \ {c},
                            ![fn].value = ChunkResult(fn, pool[fn], c),
                            ![fn].done = @ \cup {c},
                            ![fn].overtaken =
                                @ \/ \E b \in pool[fn].running : b < c]
    /\ UNCHANGED <<inputVars, unitVars>>
    /\ UNCHANGED <<pc, paths, files, results, printed, stdout, stderr, exitCode, consulted>>

\* MapSearchFile not waiting for the whole map: the files found so far are
\* handed on as soon as one find_files task is done.
MapSearchFileEarly ==
    /\ pc = "enum"
    /\ pool["find_files"].submitted
    /\ pool["find_files"].done # {}
    /\ ~Failed(pool["find_files"])
    /\ LET job == pool["find_files"]
           done == SelectSeq([i \in DOMAIN job.args |-> i],
                             LAMBDA i : job.value[i] # Unset)
           sofar == [k \in DOMAIN done |-> job.value[done[k]].ret]
       IN  /\ files' = sofar
           /\ pool' = [pool EXCEPT !["search_file"] = Submit(chain(sofar))]
    /\ pc' = "match"
    /\ UNCHANGED <<inputVars, unitVars>>
    /\ UNCHANGED <<paths, results, printed, stdout, stderr, exitCode, consulted>>

\* files = pool.map(find_files, paths) returns; pool.map(search_file,
\* chain(*files)) is called
MapSearchFile ==
    /\ pc = "enum"
    /\ ready(pool["find_files"])
    /\ ~Failed(pool["find_files"])
    /\ files' = MapResult(pool["find_files"])
    /\ pool' = [pool EXCEPT !["search_file"] = Submit(chain(MapResult(pool["find_files"])))]
    /\ pc' = "match"
    /\ UNCHANGED <<inputVars, unitVars>>
    /\ UNCHANGED <<paths, results, printed, stdout, stderr, exitCode, consulted>>

\* Kept without the test of res.todos.
KeptAll(res) == res # None

\* The reports main keeps: res and res.todos
Kept(res) == res # None /\ res.todos # <<>>

\* The list back to front.
Reverse(seq) == [k \in DOMAIN seq |-> seq[Len(seq) + 1 - k]]

\* CollectResults keeping the reports in another order than the map call
\* returns them in.
CollectResultsReordered ==
    /\ pc = "match"
    /\ ready(pool["search_file"])
    /\ ~Failed(pool["search_file"])
    /\ results' = Reverse(SelectSeq(MapResult(pool["search_file"]), Kept))
    /\ pc' = "print"
    /\ UNCHANGED <<inputVars, unitVars>>
    /\ UNCHANGED <<paths, pool, files, printed, stdout, stderr, exitCode, consulted>>

\* results = [res for res in pool.map(search_file, ...) if res and res.todos]
CollectResults ==
    /\ pc = "match"
    /\ ready(pool["search_file"])
    /\ ~Failed(pool["search_file"])
    /\ results' = SelectSeq(MapResult(pool["search_file"]), Kept)
    /\ pc' = "print"
    /\ UNCHANGED <<inputVars, unitVars>>
    /\ UNCHANGED <<paths, pool, files, printed, stdout, stderr, exitCode, consulted>>

\* A map call re-raises what a task raised: main ends with a traceback.
MapRaises(fn) ==
    /\ pc = (IF fn = "find_files" THEN "enum" ELSE "match")
    /\ ready(pool[fn])
    /\ Failed(pool[fn])
    /\ stderr' = Append(stderr, <<"Traceback", fn>>)
    /\ exitCode' = 1
    /\ pc' = "crashed"
    /\ UNCHANGED <<inputVars, unitVars>>
    /\ UNCHANGED <<paths, pool, files, results, printed, stdout, consulted>>

\* for res in results: print(res)
PrintResult ==
    /\ pc = "print"
    /\ printed < Len(results)
    /\ LET block == SearchResult_str(results[printed + 1])
       IN  IF IsRaised(block)
           THEN /\ stderr' = Append(stderr, <<"Traceback", "__str__">>)
                /\ exitCode' = 1
                /\ pc' = "crashed"
                /\ UNCHANGED <<printed, stdout>>
           ELSE /\ stdout' = Append(stdout, block.ret)
                /\ printed' = printed + 1
                /\ UNCHANGED <<pc, stderr, exitCode>>
    /\ UNCHANGED <<inputVars, unitVars>>
    /\ UNCHANGED <<paths, pool, files, results, consulted>>

\* main returns
MainReturn ==
    /\ pc = "print"
    /\ printed = Len(results)
    /\ exitCode' = 0
    /\ pc' = "done"
    /\ UNCHANGED <<inputVars, unitVars>>
    /\ UNCHANGED <<paths, pool, files, results, printed, stdout, stderr, consulted>>

Functions == {"find_files", "search_file"}

Next ==
    \/ MainRepo
    \/ MainTodoPaths
    \/ MainBail
    \/ MapFindFiles
    \/ \E fn \in Functions : WorkerTake(fn)
    \/ \E fn \in Functions : \E c \in pool[fn].running : WorkerDone(fn, c)
    \/ MapSearchFile
    \/ CollectResults
    \/ \E fn \in Functions : MapRaises(fn)
    \/ PrintResult
    \/ MainReturn

----------------------------------------------------------------------------
(* The runs checked *)

H == <<"h">>
W == <<"h", "w">>
D == <<"h", "w", "d">>
WF == <<"h", "w", "f">>
DG == <<"h", "w", "d", "g">>
X == <<"x">>

Todo == <<" ", "#", " ", "@", "A", " ", "a", "\n">>
Fixme == <<"\t", "/", "/", " ", "@", "A", "A", " ", "b", "\n">>
NoTag == <<"a", "\n">>

TwoTodos == File(<<Todo, NoTag, Fixme>>, 0, TRUE)
OneTodo == File(<<NoTag, Todo>>, 0, TRUE)
NoTodos == File(<<NoTag>>, 0, TRUE)
Undecodable == File(<<Todo, NoTag>>, 2, TRUE)
Unreadable == File(<<Todo>>, 0, FALSE)

\* What a ".git" may be: nothing, the directory of a repository, the file of
\* a worktree or submodule; and, in the working directory, a dangling link.
GitChoices == {NoEnt, Dir, NoTodos}

\* The values of TODO_PATH: every list of up to MaxRoots paths where no
\* ".git" exists; unset or one directory where one does (the variable is
\* then not read).
PathLists(gw, gh) ==
    IF gw \in {NoEnt, Link(X)} /\ gh = NoEnt
    THEN SeqsUpTo({W, D, X}, MaxRoots)
    ELSE {<<D>>}

Init ==
    /\ \E gw \in GitChoices \cup {Link(X)} :
       \E gh \in GitChoices :
       \E f \in {TwoTodos, NoTodos, Undecodable, Unreadable} :
       \E g \in {OneTodo, NoTodos} :
           /\ fs = TreeOf((Append(W, ".git") :> gw) @@ (Append(H, ".git") :> gh)
                          @@ (H :> Dir) @@ (W :> Dir) @@ (D :> Dir)
                          @@ (WF :> f) @@ (DG :> g))
           /\ environ \in {<<>>} \cup {[TODO_PATH |-> v] : v \in PathLists(gw, gh)}
    /\ cwd = W
    /\ home \in {H, D}
    /\ pc = "start"
    /\ paths = <<>>
    /\ pool = [find_files |-> NoJob, search_file |-> NoJob]
    /\ files = <<>> /\ results = <<>> /\ printed = 0
    /\ stdout = <<>> /\ stderr = <<>> /\ exitCode = -1
    /\ consulted = FALSE
    /\ text = <<>> /\ m = Unset /\ report = Unset /\ found = Unset

Spec == Init /\ [][Next]_vars

----------------------------------------------------------------------------
(* What the runs are checked for *)

\* The ".git" of a directory, if it has one.
GitOf(dir) == IF Append(dir, ".git") \in DOMAIN fs THEN fs[Append(dir, ".git")] ELSE NoEnt

\* The directories from the working directory upward.
Above == {SubSeq(cwd, 1, k) : k \in 0..Len(cwd)}

\* The nearest of the directories ds to the working directory.
Nearest(ds) == CHOOSE d \in ds : \A e \in ds : Len(e) <= Len(d)

Resolved == pc \notin {"start", "bailed"}

\* C3: with no ".git" in the working directory or above it and TODO_PATH
\* unset, the run ends in the MissingConfiguration failure: the message
\* "ERROR: TODO_PATH not set." on the error stream, a non-zero exit code,
\* nothing on stdout, and no enumeration or matching started.
C3_MissingConfiguration ==
    ((\A d \in Above : GitOf(d) = NoEnt) /\ "TODO_PATH" \notin DOMAIN environ) =>
        /\ pc \in {"start", "bailed"}
        /\ stdout = <<>>
        /\ ~pool["find_files"].submitted /\ ~pool["search_file"].submitted
        /\ pc = "bailed" =>
            /\ stderr = <<<<"ERROR: ", "TODO_PATH not set.">>>>
            /\ exitCode # 0 /\ exitCode # -1

\* The run bailed out.
C3_Witness ==
    /\ pc = "bailed"
    /\ \A d \in Above : GitOf(d) = NoEnt

\* C4 as stated: if the working directory or a directory above it has a
\* subdirectory named ".git", the nearest such directory is the only
\* ScanRoot and TODO_PATH is not consulted.
C4_NearestGitDirectory ==
    (Resolved /\ \E d \in Above : GitOf(d).kind = "dir") =>
        /\ paths = <<Nearest({d \in Above : GitOf(d).kind = "dir"})>>
        /\ ~consulted

\* A ".git" that exists: a directory, a file, or a link that leads somewhere.
GitExists(dir) ==
    /\ GitOf(dir) # NoEnt
    /\ GitOf(dir).kind = "link" => GitOf(dir).target \in DOMAIN fs

\* C4 as amended: if the working directory or a directory above it has a
\* ".git" that exists, whether a directory or a file (a dangling link does
\* not count), the nearest such directory is the only ScanRoot and TODO_PATH
\* is not consulted: no TODO_PATH entry is scanned and the run does not fail
\* with MissingConfiguration.
C4_NearestGitEntry ==
    (\E d \in Above : GitExists(d)) =>
        /\ pc # "bailed"
        /\ ~consulted
        /\ Resolved => paths = <<Nearest({d \in Above : GitExists(d)})>>
        /\ pool["find_files"].submitted => pool["find_files"].args = paths

\* The working directory has a ".git" file, the directory above it a ".git"
\* directory, TODO_PATH names another directory, and the scan has begun.
C4_Witness ==
    /\ pc = "match"
    /\ GitOf(W).kind = "file" /\ GitOf(H).kind = "dir"
    /\ "TODO_PATH" \in DOMAIN environ /\ environ["TODO_PATH"] = <<D>>

\* C5: search_file is never fatal to the run: for every candidate file, one
\* that cannot be opened included, it returns a report or None, and the run
\* goes on to match and report the remaining files.
C5_MatcherNeverFatal ==
    /\ \A i \in DOMAIN pool["search_file"].value :
           ~IsRaised(pool["search_file"].value[i])
    /\ ~(pc = "crashed" /\ Failed(pool["search_file"]))

NoOverlap(roots) ==
    \A i, j \in DOMAIN roots : i # j => ~IsPrefix(roots[i], roots[j])

\* The files below each of the ScanRoots, all of them, and how many of the
\* roots reach a file.
BelowRoots == [i \in DOMAIN paths |-> FilesBelow(paths[i], TRUE)]
AllOf(below) == UNION {below[i] : i \in DOMAIN below}
Times(below, p) == Cardinality({i \in DOMAIN below : p \in below[i]})
Scanned == AllOf(BelowRoots)

MatchingLines(p) == Matching(fs[p].lines) \ {fs[p].bad}
Decodable(p) == fs[p].bad = 0

\* The file a printed block is about, and the blocks about a file.
BlockFile(block) == home \o block[1].name
BlocksOf(p) == {k \in DOMAIN stdout : stdout[k] # <<>> /\ BlockFile(stdout[k]) = p}

\* C6 as stated: of the N files scanned, the M with at least one matching
\* line get one block each, M distinct blocks in all, each with one line per
\* matching line; a file with no matching line gets none, not even an empty
\* one.
C6_BlockPerMatchingFile ==
    pc = "done" =>
        LET scanned == Scanned
        IN  /\ \A k \in DOMAIN stdout : stdout[k] # <<>>
            /\ \A p \in scanned :
                /\ Cardinality(BlocksOf(p)) = (IF MatchingLines(p) # {} THEN 1 ELSE 0)
                /\ \A k \in BlocksOf(p) : Len(stdout[k]) = Cardinality(MatchingLines(p))
            /\ Len(stdout) = Cardinality({p \in scanned : MatchingLines(p) # {}})

\* C6 as amended: of the N files scanned, the M that can be decoded and have
\* at least one matching line are the ones printed: each gets one block per
\* ScanRoot that reaches it (exactly one, M distinct blocks in all, when no
\* ScanRoot is or contains another), each block with one line per matching
\* line; a file with no matching line, or one that cannot be decoded, gets
\* no block, not even an empty one.
C6_BlockPerDecodableMatchingFile ==
    pc = "done" =>
        LET below == BelowRoots
            scanned == AllOf(below)
        IN  /\ \A k \in DOMAIN stdout : stdout[k] # <<>>
            /\ \A p \in scanned :
                /\ Cardinality(BlocksOf(p)) =
                       (IF Decodable(p) /\ MatchingLines(p) # {}
                        THEN Times(below, p) ELSE 0)
                /\ \A k \in BlocksOf(p) : Len(stdout[k]) = Cardinality(MatchingLines(p))
            /\ \A k \in DOMAIN stdout : BlockFile(stdout[k]) \in scanned
            /\ NoOverlap(paths) =>
                   Len(stdout) = Cardinality({p \in scanned :
                                     Decodable(p) /\ MatchingLines(p) # {}})

\* A run completed that scanned a file it could not decode, a file with no
\* matching line and a file it printed.
C6_Witness ==
    /\ pc = "done"
    /\ stdout # <<>>
    /\ LET scanned == Scanned
       IN  /\ \E p \in scanned : ~Decodable(p) /\ MatchingLines(p) # {}
           /\ \E p \in scanned : Decodable(p) /\ MatchingLines(p) = {}

\* C8 as stated: each file is scanned at most once, also when TODO_PATH names
\* a path twice or a directory and one above it: no path is handed to
\* search_file by more than one task and no directory is listed by more
\* than one find_files task.
C8_EachFileScannedOnce ==
    /\ NoRepeats(pool["search_file"].args)
    /\ NoOverlap(pool["find_files"].args)

\* The chunks a job's workers have taken, each by one worker.
TakenOnce(job) ==
    /\ job.running \cap job.done = {}
    /\ job.running \cup job.done = 1..job.taken
    /\ job.taken <= NChunks(job)
    /\ \A i \in DOMAIN job.args :
           Cardinality({c \in 1..NChunks(job) : i \in ChunkTasks(job, c)}) = 1

\* C8 as amended: each entry of the list of ScanRoots is enumerated by one
\* find_files task and each entry of the list of candidate files is handed
\* to search_file by one task; a path occurs once in the list of candidates
\* when no ScanRoot is or contains another, and once per ScanRoot that
\* reaches it otherwise (a TODO_PATH that names a path twice, or a directory
\* and one above it, has its files scanned again: nothing removes
\* duplicates).
C8_OneTaskPerListEntry ==
    /\ TakenOnce(pool["find_files"]) /\ TakenOnce(pool["search_file"])
    /\ pool["search_file"].submitted =>
        LET below == BelowRoots
            args == pool["search_file"].args
        IN  /\ \A p \in Range(args) \cup AllOf(below) :
                   Cardinality({i \in DOMAIN args : args[i] = p}) = Times(below, p)
            /\ NoOverlap(paths) => NoRepeats(args)

\* TODO_PATH named a directory and the directory above it, and every file
\* was searched.
C8_Witness ==
    /\ ready(pool["search_file"])
    /\ Len(paths) = 2 /\ paths[1] # paths[2] /\ ~NoOverlap(paths)
    /\ ~NoRepeats(pool["search_file"].args)

\* C9: the two phases are separated by a barrier: no search_file task starts
\* before every find_files task of every ScanRoot has finished, and the
\* candidates handed to the matching phase are the per-root results, whole,
\* one after the other.
C9_Barrier ==
    pool["search_file"].submitted =>
        LET enum == pool["find_files"]
        IN  /\ enum.running = {}
            /\ enum.taken = NChunks(enum)
            /\ enum.done = 1..NChunks(enum)
            /\ LET perRoot == [i \in DOMAIN enum.args |-> find_files(enum.args[i])]
               IN  /\ enum.value = perRoot
                   /\ pool["search_file"].args =
                          chain([i \in DOMAIN perRoot |-> perRoot[i].ret])

\* Two roots were enumerated, the second done first, and a search_file task
\* is running.
C9_Witness ==
    /\ pool["search_file"].running # {}
    /\ Len(pool["find_files"].args) = 2
    /\ pool["find_files"].overtaken

\* The files of the reports search_file gives that main keeps, in the order
\* of the list of candidates.
KeptFiles(candidates) ==
    SelectSeq(candidates,
              LAMBDA p : ~IsRaised(search_file(p)) /\ Kept(search_file(p).ret))

\* C10: whatever order the workers finish in, the reports kept are in the
\* order of their files in the list of candidates (roots in resolver order,
\* files in each root's enumeration order), and they are printed in that
\* order.
C10_SubmissionOrder ==
    pc \in {"print", "done"} =>
        /\ [k \in DOMAIN results |-> results[k].file]
               = KeptFiles(chain([i \in DOMAIN paths |-> find_files(paths[i]).ret]))
        /\ printed = Len(stdout)
        /\ \A k \in DOMAIN stdout : BlockFile(stdout[k]) = results[k].file

\* Two blocks were printed after the workers finished out of order.
C10_Witness ==
    /\ pc = "done"
    /\ Len(stdout) >= 2
    /\ stdout[1] # stdout[2]
    /\ pool["search_file"].overtaken

====
